---- MODULE Spec2Model ----
(***************************************************************************)
(* Model of the alias-mapping datasets of PythonTools:                     *)
(*   DataSet     (src/builder_dataset.py)                                  *)
(*   GeoDataSet  (src/dataset.py)                                          *)
(* A frame is a pandas DataFrame ("df") or a geopandas GeoDataFrame        *)
(* ("gdf"): an ordered list of named columns (names may repeat after a     *)
(* rename onto an existing name), a row count and a crs.  A column's data  *)
(* is a tag that says where the data came from: the physical name it had   *)
(* in the frame the caller supplied, or "points_from_xy" when geopandas    *)
(* built it from the coordinate columns.                                   *)
(***************************************************************************)
EXTENDS Integers, Sequences, FiniteSets, TLC

VARIABLES kind, pc, ds, pre, last, nops

vars == <<kind, pc, ds, pre, last, nops>>

(* ---------------------------------------------------------------- bounds *)
\* Number of mutating calls (assignments, frame replacements) after construction.
MaxOps == 2

(* ---------------------------------------------------------------- values *)
\* Python values handed to the datasets: a str, a 2-tuple (str, flag), a list
\* (unhashable), None, and the reference to the owned frame object.
StrV(s) == [t |-> "str", s |-> s, f |-> "-"]
TupV(s, f) == [t |-> "tuple", s |-> s, f |-> f]
ListV == [t |-> "list", s |-> "", f |-> "-"]
NoneV == [t |-> "None", s |-> "", f |-> "-"]
FrameRef == [t |-> "frame", s |-> "", f |-> "-"]
\* a copy of the owned frame (frame.copy()): another object with the same data
FrameCopy == [t |-> "framecopy", s |-> "", f |-> "-"]

EmptyMap == [x \in {} |-> NoneV]
Put(m, k, v) == [x \in (DOMAIN m) \cup {k} |-> IF x = k THEN v ELSE m[x]]
Get(m, k) == IF k \in DOMAIN m THEN m[k] ELSE NoneV
Del(m, k) == [x \in (DOMAIN m) \ {k} |-> m[x]]

(* ---------------------------------------------------------------- frames *)
Col(n) == [name |-> n, data |-> n]
NoFrame == [src |-> 0, kind |-> "none", cols |-> <<>>, rows |-> 0, crs |-> "none"]

ColNames(fr) == {fr.cols[i].name : i \in DOMAIN fr.cols}
HasCol(fr, n) == n \in ColNames(fr)
\* frame[n]: the data under the label n (several columns when the label repeats)
ColData(fr, n) ==
    LET sel == SelectSeq(fr.cols, LAMBDA c : c.name = n)
    IN  [i \in DOMAIN sel |-> sel[i].data]

\* `value in frame.columns`: Index.__contains__ hashes the value first
\* (TypeError for a list); the frames here carry str labels only.
Hashable(v) == v.t \in {"str", "tuple", "None"}
InColumns(fr, v) == v.t = "str" /\ HasCol(fr, v.s)

\* DataFrame.rename({old: new}, axis=1, inplace=True): every column labelled
\* old is relabelled new; pandas does not look at whether new is already there.
Rename(fr, old, new) ==
    [fr EXCEPT !.cols = [i \in DOMAIN fr.cols |->
        IF fr.cols[i].name = old THEN [fr.cols[i] EXCEPT !.name = new] ELSE fr.cols[i]]]

(* ---------------------------------------------------------- alias tables *)
\* A dict in insertion order: a sequence of <<canonical, physical>> pairs.
AliasKeys(al) == {al[i][1] : i \in DOMAIN al}
AliasOf(al, k) == (CHOOSE i \in DOMAIN al : al[i][1] = k)
AliasGet(al, k) == al[AliasOf(al, k)][2]
AliasPut(al, k, v) ==
    IF k \in AliasKeys(al)
    THEN [al EXCEPT ![AliasOf(al, k)] = <<k, v>>]
    ELSE Append(al, <<k, v>>)

(* ------------------------------------------------------------ the object *)
\* frame: the owned frame; aliases: _aliases; store: _store; dict: the entries
\* of the instance __dict__ other than the bookkeeping ones; persistent:
\* _persistent_fields (GeoDataSet).
NoObject == [frame |-> NoFrame, aliases |-> <<>>, store |-> EmptyMap,
             dict |-> EmptyMap, persistent |-> <<>>]

NoErr == [type |-> "none", msg |-> "", field |-> ""]
Err(t, m, f) == [type |-> t, msg |-> m, field |-> f]

\* the result of one call: the object afterwards, the error raised (if any),
\* whether a column was rebound, the warnings emitted
Res(d, e, rb, w) == [d |-> d, err |-> e, rebound |-> rb, warns |-> w]

\* what a lookup hands back: a column of the frame (its data), a stored value,
\* the frame itself, or the exception it raised
LRes(tag, data, val) == [tag |-> tag, data |-> data, val |-> val]
NoLookup == LRes("-", <<>>, NoneV)

(* ------------------------------------------------- DataSet (plain dataset) *)
\* DataSet.__init__ assigns _store, frame and _aliases through __setattr__, so
\* through __setitem__: reading self._aliases raises KeyError each time, and the
\* except branch puts _store and _aliases in __dict__ and the frame in
\* _store['frame'].
DS_init_fields(fr) ==
    [frame |-> fr, aliases |-> <<>>, store |-> Put(EmptyMap, "frame", FrameRef),
     dict |-> EmptyMap, persistent |-> <<>>]

\* self.frame: __getattr__ -> __getitem__('frame') finds _store['frame']
DS_has_frame(d) == Get(d.store, "frame") = FrameRef

\* the except branch of __setitem__ (keys other than '_aliases', '_store')
DS_store_value(d, key, value) ==
    [d EXCEPT !.store = Put(d.store, key, value),
              !.frame = IF key = "frame" /\ value # FrameRef THEN NoFrame ELSE d.frame]

DS_setitem(d, key, value) ==
    LET bound == key \in AliasKeys(d.aliases)
        restoreFails == bound /\ (~DS_has_frame(d) \/ ~HasCol(d.frame, key))
        d1 == IF bound /\ ~restoreFails
              THEN [d EXCEPT !.frame = Rename(d.frame, key, AliasGet(d.aliases, key))]
              ELSE d
        renameFails == ~Hashable(value) \/ ~DS_has_frame(d1) \/ ~InColumns(d1.frame, value)
    IN  IF restoreFails THEN Res(DS_store_value(d, key, value), NoErr, FALSE, {})
        ELSE IF renameFails THEN Res(DS_store_value(d1, key, value), NoErr, FALSE, {})
        ELSE Res([d1 EXCEPT !.frame = Rename(d1.frame, value.s, key),
                            !.aliases = AliasPut(d1.aliases, key, value.s)],
                 NoErr, TRUE, {})

\* __getitem__: __dict__[key], then _store[key], then __dict__['frame'][key]
DS_getitem(d, key) ==
    IF key \in DOMAIN d.dict THEN LRes("value", <<>>, d.dict[key])
    ELSE IF key \in DOMAIN d.store
         THEN IF d.store[key] = FrameRef THEN LRes("frame", <<>>, FrameRef)
              ELSE LRes("value", <<>>, d.store[key])
    ELSE IF "frame" \in DOMAIN d.dict
         THEN IF HasCol(d.frame, key)
              THEN LRes("column", ColData(d.frame, key), NoneV)
              ELSE LRes("KeyError", <<>>, StrV(key))
    ELSE LRes("KeyError", <<>>, StrV("frame"))

\* what an iteration yields, one record for each item: a bare key, or a
\* (key, value) tuple
Yield(k, v, pair) == [key |-> k, val |-> v, pair |-> pair]

\* __iter__: iter(self._store)
DS_iter(d) == {Yield(k, NoneV, FALSE) : k \in DOMAIN d.store}

\* __delitem__: del self._store[v]
DS_delitem(d, v) ==
    IF v \in DOMAIN d.store
    THEN Res([d EXCEPT !.store = Del(d.store, v)], NoErr, FALSE, {})
    ELSE Res(d, Err("KeyError", "store", v), FALSE, {})

\* __len__: len(self._store)
DS_len(d) == Cardinality(DOMAIN d.store)

\* `key in dataset` (Mapping.__contains__): self[key] raises KeyError or not
DS_contains(d, key) == DS_getitem(d, key).tag # "KeyError"

\* DataSet(frame, **kwargs)
RECURSIVE DS_convert_fields(_, _)
DS_convert_fields(d, kwargs) ==
    IF kwargs = <<>> THEN d
    ELSE DS_convert_fields(DS_setitem(d, kwargs[1][1], kwargs[1][2]).d, Tail(kwargs))

DS_init(fr, kwargs) == Res(DS_convert_fields(DS_init_fields(fr), kwargs), NoErr, FALSE, {})

(* ------------------------------------------------------------- GeoDataSet *)
\* a side-store branch that fills _store alone
Geo_store_only(d, key, value) ==
    [d EXCEPT !.store = Put(d.store, key, value)]

\* the side-store branch of __setitem__: _store[key] and __dict__[key]
Geo_store_value(d, key, value) ==
    [d EXCEPT !.store = Put(d.store, key, value), !.dict = Put(d.dict, key, value)]

\* an assignment that leaves the column shown as key under that name
Geo_restore_skipped(d, key) == d

\* the column shown as key gets back the name recorded as its alias
Geo_restore(d, key) ==
    [d EXCEPT !.frame = Rename(d.frame, key, AliasGet(d.aliases, key))]

\* GeoDataSet.__setitem__.  `value in self._frame.columns` decides between a
\* rebinding and the side-store; a TypeError (unhashable value) is caught and
\* side-stores too; KeyError and GeoDataSetInfoError reach the caller.
Geo_setitem(d, key, value) ==
    IF ~Hashable(value) THEN Res(Geo_store_value(d, key, value), NoErr, FALSE, {})
    ELSE IF ~InColumns(d.frame, value) THEN Res(Geo_store_value(d, key, value), NoErr, FALSE, {})
    ELSE
    LET isTuple == value.t = "tuple"
        badFlag == isTuple /\ value.f \notin {"True", "False"}
        d0 == IF isTuple /\ value.f = "True"
              THEN [d EXCEPT !.persistent = Append(d.persistent, key)]
              ELSE d
        name == value.s
        keyIsCol == HasCol(d0.frame, key)
        noAlias == keyIsCol /\ key \notin AliasKeys(d0.aliases)
        d1 == IF keyIsCol /\ ~noAlias
              THEN Geo_restore(d0, key)
              ELSE d0
    IN  IF badFlag
        THEN Res(d, Err("GeoDataSetInfoError", "persistent flag must be a bool", key), FALSE, {})
        ELSE IF noAlias THEN Res(d0, Err("KeyError", "aliases", key), FALSE, {})
        ELSE IF ~HasCol(d1.frame, name) THEN Res(d1, Err("KeyError", "rename", name), FALSE, {})
        ELSE Res([d1 EXCEPT !.frame = Rename(d1.frame, name, key),
                            !.aliases = AliasPut(d1.aliases, key, name)],
                 NoErr, TRUE, {})

\* GeoDataSet.__getitem__: 'frame' is the frame (a copy); then the column of
\* the frame; then __dict__[item]
Geo_getitem(d, item) ==
    IF item = "frame" THEN LRes("frame", <<>>, FrameCopy)
    ELSE IF HasCol(d.frame, item) THEN LRes("column", ColData(d.frame, item), NoneV)
    ELSE IF item \in DOMAIN d.dict THEN LRes("value", <<>>, d.dict[item])
    ELSE LRes("KeyError", <<>>, StrV(item))

\* __iter__: `yield key, self._store[key]` for every key of _store
Geo_iter(d) == {Yield(k, d.store[k], TRUE) : k \in DOMAIN d.store}

\* __delitem__: del self._store[key]; __dict__ is left as it is
Geo_delitem(d, key) ==
    IF key \in DOMAIN d.store
    THEN Res([d EXCEPT !.store = Del(d.store, key)], NoErr, FALSE, {})
    ELSE Res(d, Err("KeyError", "store", key), FALSE, {})

\* __len__: len(self._store)
Geo_len(d) == Cardinality(DOMAIN d.store)

\* __contains__: item in self._store
Geo_contains(d, item) == item \in DOMAIN d.store

\* _convert_fields: __setitem__ for every keyword, in order; the first error
\* ends the construction
RECURSIVE Geo_convert_fields(_, _)
Geo_convert_fields(d, kwargs) ==
    IF kwargs = <<>> THEN Res(d, NoErr, FALSE, {})
    ELSE LET r == Geo_setitem(d, kwargs[1][1], kwargs[1][2])
         IN  IF r.err # NoErr THEN r ELSE Geo_convert_fields(r.d, Tail(kwargs))

(* ------------------------------------------------------ frame normalizing *)
\* what the caller hands in as a frame: a frame in memory, None, or a path
\* the loader cannot read
FrameArg(fr) == [t |-> "frame", fr |-> fr]
NoneArg == [t |-> "None", fr |-> NoFrame]
BadPathArg == [t |-> "path", fr |-> NoFrame]

\* read_geodataframe: None is refused, a str is read from disk (the read fails
\* for BadPathArg), anything else raises GeoDataSetInfoError, which both
\* callers catch to keep the value as it is
read_geodataframe(arg) ==
    IF arg.t = "None" THEN Err("GeoDataSetFrameError", "You can not set frame to none!", "")
    ELSE IF arg.t = "path" THEN Err("ReadError", "the file could not be read", "")
    ELSE Err("GeoDataSetInfoError", "The value is not a filepath.", "")

CrsOf(v) == IF v.t = "str" THEN v.s ELSE "none"
Truthy(v) == v.t # "None" /\ ~(v.t = "str" /\ v.s = "")

\* the outcome of building a GeoDataFrame
Built(fr, e) == [fr |-> fr, err |-> e]

\* GeoDataFrame(df, geometry=<array>): the column 'geometry' is overwritten
\* where it exists and appended otherwise
SetGeometryData(fr, data) ==
    IF HasCol(fr, "geometry")
    THEN [i \in DOMAIN fr.cols |->
            IF fr.cols[i].name = "geometry" THEN [fr.cols[i] EXCEPT !.data = data]
            ELSE fr.cols[i]]
    ELSE Append(fr.cols, [name |-> "geometry", data |-> data])

\* GeoDataFrame.to_crs
ToCrs(fr, target) == [fr EXCEPT !.crs = target]

\* geodataframe_from_coordinates(df, z, crs, to_crs).  With z the tuple of two
\* series is added to a third series instead of being extended by it, which
\* pandas refuses for frames of any length but two; no frame of this model has
\* a coord_field3.
geodataframe_from_coordinates(fr, z, crs, to_crs) ==
    IF ~HasCol(fr, "coord_field1") \/ ~HasCol(fr, "coord_field2")
    THEN Built(fr, Err("KeyError", "coordinates", ""))
    ELSE IF z THEN Built(fr, Err("ValueError", "fields += series", ""))
    ELSE LET g == [fr EXCEPT !.kind = "gdf",
                             !.cols = SetGeometryData(fr, "points_from_xy"),
                             !.crs = CrsOf(crs)]
         IN  IF Truthy(to_crs) THEN Built(ToCrs(g, CrsOf(to_crs)), NoErr)
             ELSE Built(g, NoErr)

\* geodataframe_from_geometry(df, crs, to_crs); GeoDataFrame(df,
\* geometry='geometry') raises ValueError when there is no such column
geodataframe_from_geometry(fr, crs, to_crs) ==
    IF ~HasCol(fr, "geometry") THEN Built(fr, Err("ValueError", "Unknown column geometry", ""))
    ELSE LET g == [fr EXCEPT !.kind = "gdf",
                             !.crs = IF Truthy(crs) THEN CrsOf(crs) ELSE fr.crs]
         IN  IF Truthy(to_crs)
             THEN IF Truthy(crs) THEN Built(ToCrs(g, CrsOf(to_crs)), NoErr)
                  ELSE Built(g, Err("GeoDataSetInfoError",
                                    "A beginning crs must be given to transform to a new crs!", ""))
             ELSE Built(g, NoErr)

\* _finalize_frame: every alias whose physical name is a column of the new
\* frame is renamed to its canonical name, in the order of the dict
RECURSIVE ApplyAliases(_, _)
ApplyAliases(fr, al) ==
    IF al = <<>> THEN fr
    ELSE ApplyAliases(IF HasCol(fr, al[1][2]) THEN Rename(fr, al[1][2], al[1][1]) ELSE fr,
                      Tail(al))

finalize_frame(d, value) ==
    [d EXCEPT !.frame = ApplyAliases(value, d.aliases),
              !.store = Put(d.store, "frame", FrameRef)]

\* the series the method reads first: each stays empty when its lookup (or an
\* earlier one of the same try block) raised KeyError, or when the frame has
\* no rows
Field1(fr) == HasCol(fr, "coord_field1") /\ fr.rows > 0
Field2(fr) == Field1(fr) /\ HasCol(fr, "coord_field2")
Field3(fr) == Field2(fr) /\ HasCol(fr, "coord_field3")
FieldGeometry(fr) == HasCol(fr, "geometry") /\ fr.rows > 0

PrecedenceWarning == "geometry takes precedence"
NoCrsWarning == "no crs"

\* the branch on the kind of frame (lines 195-217): the frame built, the
\* error raised, the warnings
convert_branch(fr, crs) ==
    IF fr.kind = "gdf"
    THEN IF FieldGeometry(fr)
         THEN [b |-> geodataframe_from_geometry(fr, crs, NoneV),
               w |-> IF Field1(fr) \/ Field2(fr) \/ Field3(fr) THEN {PrecedenceWarning} ELSE {}]
         ELSE IF Field1(fr) /\ Field2(fr)
         THEN [b |-> Built(fr, Err("GeoDataSetInfoError",
                        "Geometry field should not be passed along with longitude and latitude fields.", "")),
               w |-> {}]
         ELSE [b |-> Built(fr, NoErr), w |-> {}]
    ELSE LET c == geodataframe_from_coordinates(fr, Field3(fr), crs, NoneV)
         IN  IF c.err.type = "KeyError"
             THEN [b |-> geodataframe_from_geometry(fr, crs, NoneV), w |-> {}]
             ELSE [b |-> c, w |-> {}]

\* _convert_geodataframe on the object whose _frame is the raw frame.
\* strictCrs: reading .crs of a GeoDataFrame that has no geometry column
\* raises AttributeError in some geopandas builds and gives None in others.
convert_geodataframe(d, strictCrs) ==
    LET crs == Get(d.dict, "crs")
        to_crs == Get(d.dict, "to_crs")
        br == convert_branch(d.frame, crs)
        value == br.b.fr
    IN  IF br.b.err # NoErr THEN Res(d, br.b.err, FALSE, br.w)
        ELSE IF value.rows = 0
        THEN Res(d, Err("GeoDataSetInfoError", "The frame can not be empty!", ""), FALSE, br.w)
        ELSE IF ~HasCol(value, "geometry") /\ strictCrs
        THEN Res(d, Err("AttributeError", "crs", ""), FALSE, br.w)
        ELSE IF value.crs = "none"
        THEN Res(finalize_frame(d, value), NoErr, FALSE, br.w \cup {NoCrsWarning})
        ELSE IF Truthy(to_crs)
        THEN Res(finalize_frame(d, ToCrs(value, CrsOf(to_crs))), NoErr, FALSE, br.w)
        ELSE Res(finalize_frame(d, value), NoErr, FALSE, br.w)

\* GeoDataSet.__init__(frame, fields=None, **kwargs)
Geo_init_fields(fr) ==
    [frame |-> fr, aliases |-> << <<"geometry", "geometry">> >>, store |-> EmptyMap,
     dict |-> EmptyMap, persistent |-> <<"geometry">>]

\* `fields.copy().update(kwargs)`: dict.update returns None
DictUpdate(fields, kwargs) == NoneV

\* a non-empty fields mapping is replaced by the result of dict.update, and
\* _convert_fields(**None) raises TypeError
Geo_init(arg, fields, kwargs, strictCrs) ==
    LET e == read_geodataframe(arg)
    IN  IF e.type # "GeoDataSetInfoError" THEN Res(NoObject, e, FALSE, {})
        ELSE IF fields # <<>> /\ DictUpdate(fields, kwargs) = NoneV
        THEN Res(NoObject, Err("TypeError", "argument after ** must be a mapping", ""),
                 FALSE, {})
        ELSE LET r == Geo_convert_fields(Geo_init_fields(arg.fr), kwargs)
             IN  IF r.err # NoErr THEN Res(NoObject, r.err, FALSE, {})
                 ELSE LET c == convert_geodataframe(r.d, strictCrs)
                      IN  IF c.err # NoErr THEN Res(NoObject, c.err, FALSE, c.warns)
                          ELSE c

\* the persistent fields the new frame lacks, in the order of the list
MissingPersistent(d, cols) ==
    SelectSeq(d.persistent,
              LAMBDA col : AliasGet(d.aliases, col) \notin cols /\ col \notin cols)

\* the frame setter.  sharesColumns: the GeoDataFrame built from the value
\* shares its column index with the value in some pandas builds, so that
\* value.columns read after the conversion shows the converted columns; a
\* GeoDataFrame without geometry is finalized as the very object passed in.
frame_setter(d, arg, sharesColumns, strictCrs) ==
    LET e == read_geodataframe(arg)
    IN  IF e.type # "GeoDataSetInfoError" THEN Res(d, e, FALSE, {})
        ELSE LET c == convert_geodataframe([d EXCEPT !.frame = arg.fr], strictCrs)
                 sameObject == arg.fr.kind = "gdf" /\ ~FieldGeometry(arg.fr)
                 seen == IF sharesColumns \/ sameObject
                         THEN ColNames(c.d.frame) ELSE ColNames(arg.fr)
                 miss == MissingPersistent(c.d, seen)
             IN  IF c.err # NoErr THEN c
                 ELSE IF miss # <<>>
                 THEN Res(c.d, Err("GeoDataSetInfoError", "persistent field", miss[1]),
                          FALSE, c.warns)
                 ELSE c

\* isvalid: the frame is there and has rows, and __dict__ is not empty;
\* __dict__ always holds _aliases, _persistent_fields, _store and _frame
BookkeepingFields == 4
isvalid(d) ==
    IF d.frame.rows = 0 THEN FALSE
    ELSE IF BookkeepingFields + Cardinality(DOMAIN d.dict) = 0 THEN FALSE
    ELSE TRUE

(* ---------------------------------------------------------------- inputs *)
Frame(src, k, names, rows, crs) ==
    [src |-> src, kind |-> k, cols |-> [i \in DOMAIN names |-> Col(names[i])],
     rows |-> rows, crs |-> crs]

\* the frames a caller supplies: plain and geo frames with neither, either or
\* both of geometry and coordinate columns, with and without the price
\* column, with a crs of their own, and without rows
InputFrames ==
    { Frame(1, "df", <<"price", "name">>, 1, "none"),
      Frame(2, "df", <<"price", "name", "geometry">>, 1, "none"),
      Frame(3, "df", <<"price", "name", "coord_field1", "coord_field2">>, 1, "none"),
      Frame(4, "df", <<"price", "name", "geometry", "coord_field1", "coord_field2">>, 1, "none"),
      Frame(5, "gdf", <<"price", "name">>, 1, "none"),
      Frame(6, "gdf", <<"price", "name", "geometry">>, 1, "none"),
      Frame(7, "gdf", <<"price", "name", "coord_field1", "coord_field2">>, 1, "none"),
      Frame(8, "gdf", <<"price", "name", "geometry", "coord_field1", "coord_field2">>, 1, "none"),
      Frame(9, "df", <<"name", "geometry">>, 1, "none"),
      Frame(10, "gdf", <<"name", "geometry">>, 1, "EPSG:4326"),
      Frame(11, "df", <<"value_field", "name", "geometry">>, 1, "none"),
      Frame(12, "df", <<"price", "geometry">>, 0, "none") }

\* a plain DataSet is given the plain frames without coordinate columns
PlainFrames ==
    {fr \in InputFrames : fr.kind = "df" /\ ~HasCol(fr, "coord_field1")}

FrameArgs == {FrameArg(fr) : fr \in InputFrames} \cup {NoneArg, BadPathArg}

\* keys and values of an assignment
AliasKeyNames == {"value_field", "price"}
AssignValues ==
    {StrV("price"), StrV("name"), StrV("geometry"), StrV("label"),
     TupV("price", "True"), ListV}
AssignArgs ==
    (AliasKeyNames \X AssignValues)
    \cup {<<"crs", StrV("EPSG:4326")>>, <<"to_crs", StrV("EPSG:3857")>>}
    \cup {<<"value_field", TupV("price", "yes")>>}

LookupKeys == AliasKeyNames \cup {"crs", "frame"}

\* the keys of a deletion
DeleteKeys == AliasKeyNames

\* the keyword arguments of a construction
KwargChoices ==
    { <<>>,
      << <<"crs", StrV("EPSG:4326")>> >>,
      << <<"to_crs", StrV("EPSG:3857")>> >>,
      << <<"crs", StrV("EPSG:4326")>>, <<"to_crs", StrV("EPSG:3857")>> >>,
      << <<"value_field", StrV("price")>> >>,
      << <<"value_field", TupV("price", "True")>> >>,
      << <<"price", StrV("name")>> >> }

\* the fields mapping of a GeoDataSet construction: none, or a mapping
FieldsChoices ==
    { <<>>,
      << <<"value_field", StrV("price")>> >>,
      << <<"label", StrV("survey")>> >> }

(* ----------------------------------------------------------- the machine *)
\* what the last call was, with its arguments and its outcome
Call(op, key, val, arg, kw, r, res, ok) ==
    [op |-> op, key |-> key, val |-> val, arg |-> arg, kw |-> kw, err |-> r.err,
     rebound |-> r.rebound, warns |-> r.warns, res |-> res, ok |-> ok,
     fields |-> <<>>, items |-> {}]

NoRes == Res(NoObject, NoErr, FALSE, {})

Init ==
    /\ kind \in {"DataSet", "GeoDataSet"}
    /\ pc = "new"
    /\ ds = NoObject
    /\ pre = NoObject
    /\ last = Call("none", "", NoneV, NoneArg, <<>>, NoRes, NoLookup, FALSE)
    /\ nops = 0

\* DataSet(frame, **kwargs)
DSConstruct ==
    /\ kind = "DataSet" /\ pc = "new"
    /\ \E fr \in PlainFrames, kw \in KwargChoices :
        LET r == DS_init(fr, kw)
        IN  /\ ds' = r.d
            /\ pc' = "live"
            /\ last' = Call("init", "", NoneV, FrameArg(fr), kw, r, NoLookup, FALSE)
    /\ pre' = ds
    /\ UNCHANGED <<kind, nops>>

\* GeoDataSet(frame, fields, **kwargs)
GeoConstruct ==
    /\ kind = "GeoDataSet" /\ pc = "new"
    /\ \E arg \in FrameArgs, fields \in FieldsChoices, kw \in KwargChoices,
          strictCrs \in BOOLEAN :
        LET r == Geo_init(arg, fields, kw, strictCrs)
        IN  /\ ds' = r.d
            /\ pc' = IF r.err = NoErr THEN "live" ELSE "failed"
            /\ last' = [Call("init", "", NoneV, arg, kw, r, NoLookup, FALSE)
                          EXCEPT !.fields = fields]
    /\ pre' = ds
    /\ UNCHANGED <<kind, nops>>

\* dataset[key] = value on a DataSet
DSAssign ==
    /\ kind = "DataSet" /\ pc = "live" /\ nops < MaxOps
    /\ \E a \in AssignArgs :
        LET r == DS_setitem(ds, a[1], a[2])
        IN  /\ ds' = r.d
            /\ last' = Call("assign", a[1], a[2], NoneArg, <<>>, r, NoLookup, FALSE)
    /\ pre' = ds
    /\ nops' = nops + 1
    /\ UNCHANGED <<kind, pc>>

\* dataset[key] = value on a GeoDataSet
GeoAssign ==
    /\ kind = "GeoDataSet" /\ pc = "live" /\ nops < MaxOps
    /\ \E a \in AssignArgs :
        LET r == Geo_setitem(ds, a[1], a[2])
        IN  /\ ds' = r.d
            /\ last' = Call("assign", a[1], a[2], NoneArg, <<>>, r, NoLookup, FALSE)
    /\ pre' = ds
    /\ nops' = nops + 1
    /\ UNCHANGED <<kind, pc>>

\* dataset.frame = value on a GeoDataSet; the caller hands in another frame
\* than the one the dataset was last given
GeoSetFrame ==
    /\ kind = "GeoDataSet" /\ pc = "live" /\ nops < MaxOps
    /\ \E arg \in FrameArgs, sharesColumns \in BOOLEAN, strictCrs \in BOOLEAN :
        /\ arg.t = "frame" => arg.fr.src # ds.frame.src
        /\ LET r == frame_setter(ds, arg, sharesColumns, strictCrs)
           IN  /\ ds' = r.d
               /\ last' = Call("setframe", "", NoneV, arg, <<>>, r, NoLookup, FALSE)
    /\ pre' = ds
    /\ nops' = nops + 1
    /\ UNCHANGED <<kind, pc>>

\* dataset[key]
DSLookup ==
    /\ kind = "DataSet" /\ pc = "live"
    /\ \E k \in LookupKeys :
        last' = Call("lookup", k, NoneV, NoneArg, <<>>, NoRes, DS_getitem(ds, k), FALSE)
    /\ pre' = ds
    /\ UNCHANGED <<kind, pc, ds, nops>>

GeoLookup ==
    /\ kind = "GeoDataSet" /\ pc = "live"
    /\ \E k \in LookupKeys :
        last' = Call("lookup", k, NoneV, NoneArg, <<>>, NoRes, Geo_getitem(ds, k), FALSE)
    /\ pre' = ds
    /\ UNCHANGED <<kind, pc, ds, nops>>

\* del dataset[key] on a DataSet
DSDelete ==
    /\ kind = "DataSet" /\ pc = "live" /\ nops < MaxOps
    /\ \E k \in DeleteKeys :
        LET r == DS_delitem(ds, k)
        IN  /\ ds' = r.d
            /\ last' = Call("delete", k, NoneV, NoneArg, <<>>, r, NoLookup, FALSE)
    /\ pre' = ds
    /\ nops' = nops + 1
    /\ UNCHANGED <<kind, pc>>

\* del dataset[key] on a GeoDataSet
GeoDelete ==
    /\ kind = "GeoDataSet" /\ pc = "live" /\ nops < MaxOps
    /\ \E k \in DeleteKeys :
        LET r == Geo_delitem(ds, k)
        IN  /\ ds' = r.d
            /\ last' = Call("delete", k, NoneV, NoneArg, <<>>, r, NoLookup, FALSE)
    /\ pre' = ds
    /\ nops' = nops + 1
    /\ UNCHANGED <<kind, pc>>

\* for item in dataset
DSIterate ==
    /\ kind = "DataSet" /\ pc = "live"
    /\ last' = [Call("iter", "", NoneV, NoneArg, <<>>, NoRes, NoLookup, FALSE)
                  EXCEPT !.items = DS_iter(ds)]
    /\ pre' = ds
    /\ UNCHANGED <<kind, pc, ds, nops>>

GeoIterate ==
    /\ kind = "GeoDataSet" /\ pc = "live"
    /\ last' = [Call("iter", "", NoneV, NoneArg, <<>>, NoRes, NoLookup, FALSE)
                  EXCEPT !.items = Geo_iter(ds)]
    /\ pre' = ds
    /\ UNCHANGED <<kind, pc, ds, nops>>

\* the column a caller renames in place on a frame the dataset handed out
CallerRenames == <<"name", "note">>

\* the caller takes dataset.frame (or dataset['frame']) and renames a column of
\* what it got, in place; the owned frame changes when the caller was given
\* the owned object itself
CallerMutatesFrame ==
    /\ pc = "live" /\ nops < MaxOps
    /\ last.op = "lookup" /\ last.res.tag = "frame"
    /\ HasCol(ds.frame, CallerRenames[1])
    /\ ds' = IF last.res.val = FrameRef
             THEN [ds EXCEPT !.frame = Rename(ds.frame, CallerRenames[1], CallerRenames[2])]
             ELSE ds
    /\ last' = Call("mutate", "frame", NoneV, NoneArg, <<>>, NoRes, last.res, FALSE)
    /\ pre' = ds
    /\ nops' = nops + 1
    /\ UNCHANGED <<kind, pc>>

\* dataset.isvalid()
GeoIsValid ==
    /\ kind = "GeoDataSet" /\ pc = "live"
    /\ last' = Call("isvalid", "", NoneV, NoneArg, <<>>, NoRes, NoLookup, isvalid(ds))
    /\ pre' = ds
    /\ UNCHANGED <<kind, pc, ds, nops>>

Next ==
    \/ DSConstruct
    \/ GeoConstruct
    \/ DSAssign
    \/ GeoAssign
    \/ GeoSetFrame
    \/ DSLookup
    \/ GeoLookup
    \/ DSDelete
    \/ GeoDelete
    \/ DSIterate
    \/ GeoIterate
    \/ CallerMutatesFrame
    \/ GeoIsValid

Spec == Init /\ [][Next]_vars

(* ================================================================ claims *)
\* dataset[key] of whichever dataset the run is about
Lookup(d, k) == IF kind = "DataSet" THEN DS_getitem(d, k) ELSE Geo_getitem(d, k)

Range(q) == {q[i] : i \in DOMAIN q}
IsStr(v) == v.t = "str"
Populated(fr, n) == HasCol(fr, n) /\ fr.rows > 0
KwKeys(kw) == {kw[i][1] : i \in DOMAIN kw}

\* C1: after an assignment that rebinds k to the column v, dataset[k] is the
\* column that was named v before the call and v is no longer a column name,
\* for the plain DataSet and for the GeoDataSet.
C1_RoundTripRename ==
    (pc = "live" /\ last.op = "assign" /\ last.rebound)
        => /\ Lookup(ds, last.key) = LRes("column", ColData(pre.frame, last.val.s), NoneV)
           /\ ~HasCol(ds.frame, last.val.s)

\* C1 for the GeoDataSet alone, for a canonical name that is neither the
\* physical name nor already a column
C1_GeoRoundTrip ==
    (kind = "GeoDataSet" /\ pc = "live" /\ last.op = "assign" /\ last.rebound
        /\ last.key # last.val.s /\ ~HasCol(pre.frame, last.key))
        => /\ Lookup(ds, last.key) = LRes("column", ColData(pre.frame, last.val.s), NoneV)
           /\ ~HasCol(ds.frame, last.val.s)

C1_GeoRoundTripReached ==
    kind = "GeoDataSet" /\ pc = "live" /\ last.op = "assign" /\ last.rebound
        /\ last.key # last.val.s /\ ~HasCol(pre.frame, last.key)

\* C2: when k is bound to v (the frame shows v's data as column k) and k is
\* assigned another existing column v2, the call restores the name v and then
\* renames v2 to k: afterwards the frame has a column v with the data that
\* was shown as k, the column k has the data that was v2, there is no column
\* v2, and the alias of k is v2.  (k, v and v2 are three different names: the
\* statement asks for a column v, a column k and no column v2.)
C2_Applies ==
    /\ pc = "live" /\ last.op = "assign"
    /\ last.key \in AliasKeys(pre.aliases)
    /\ HasCol(pre.frame, last.key)
    /\ IsStr(last.val) /\ HasCol(pre.frame, last.val.s)
    /\ last.val.s # last.key
    /\ last.val.s # AliasGet(pre.aliases, last.key)
    /\ AliasGet(pre.aliases, last.key) # last.key

\* C2 (the statement): restore first, then claim v2; no column is orphaned
C2_RebindRestoresFirst ==
    C2_Applies =>
        LET k == last.key
            v == AliasGet(pre.aliases, k)
            v2 == last.val.s
        IN  /\ last.err = NoErr
            /\ \A c \in Range(ColData(pre.frame, k)) : c \in Range(ColData(ds.frame, v))
            /\ ColData(ds.frame, k) = ColData(pre.frame, v2)
            /\ ~HasCol(ds.frame, v2)
            /\ AliasGet(ds.aliases, k) = v2

C2_Rebound == C2_Applies /\ last.rebound /\ kind = "GeoDataSet"

C2_ReboundPlain == C2_Applies /\ last.rebound /\ kind = "DataSet"

\* the frame the caller handed to the last construction or replacement
Raw == last.arg.fr
\* whether the key was supplied (as a keyword at construction, as an
\* attribute of the dataset before a replacement)
Supplied(k) == IF last.op = "init" THEN k \in KwKeys(last.kw) ELSE k \in DOMAIN pre.dict

\* C3: after a frame replacement through the setter of a GeoDataSet, every
\* persistent field (geometry among them) is a column of the owned frame.
C3_PersistentFieldsKept ==
    (kind = "GeoDataSet" /\ pc = "live" /\ last.op = "setframe" /\ last.err = NoErr)
        => \A n \in Range(ds.persistent) : HasCol(ds.frame, n)

\* the same for every call of the setter that put the new frame in place,
\* whether or not it then raised
C3_PersistentFieldsKeptOnCommit ==
    (kind = "GeoDataSet" /\ pc = "live" /\ last.op = "setframe" /\ last.arg.t = "frame"
        /\ ds.frame.src = Raw.src)
        => \A n \in Range(ds.persistent) : HasCol(ds.frame, n)

\* C4: assigning ("price", True) to value_field on a GeoDataSet whose frame
\* has a column price makes value_field persistent, and replacing the frame
\* by one with neither price nor value_field then raises the persistent-field
\* error naming value_field.
C4_MarkPersistent ==
    /\ (kind = "GeoDataSet" /\ pc = "live" /\ last.op = "assign"
            /\ last.key = "value_field" /\ last.val = TupV("price", "True")
            /\ HasCol(pre.frame, "price"))
        => "value_field" \in Range(ds.persistent)
    /\ (kind = "GeoDataSet" /\ pc = "live" /\ last.op = "setframe" /\ last.arg.t = "frame"
            /\ "value_field" \in Range(pre.persistent)
            /\ ~HasCol(Raw, "price") /\ ~HasCol(Raw, "value_field"))
        => (last.err.msg = "persistent field" /\ last.err.field = "value_field")

\* C5: a frame replacement on a GeoDataSet that raises leaves the frame, the
\* aliases, the side-store and the persistent fields as they were.
C5_NoPartialCommit ==
    (kind = "GeoDataSet" /\ pc = "live" /\ last.op = "setframe" /\ last.err # NoErr)
        => ds = pre

\* an extra field the caller supplied: an alias binding or a side-store entry
HasExtra(d) ==
    \/ AliasKeys(d.aliases) \ {"geometry"} # {}
    \/ (DOMAIN d.store) \ {"frame"} # {}

\* C6: isvalid() is true exactly when the frame has rows and the dataset
\* carries at least one extra field; it is false for a GeoDataSet built from
\* a frame with rows and no extra field.
C6_IsValidIff ==
    (kind = "GeoDataSet" /\ pc = "live" /\ last.op = "isvalid")
        => (last.ok <=> (ds.frame.rows > 0 /\ HasExtra(ds)))

\* C7 as stated: for every key k and every value x that is not the name of a
\* column of the owned frame, after assign(k, x) the lookup of k returns x.
C7_SideStoreRoundTrip ==
    (pc = "live" /\ last.op = "assign" /\ ~InColumns(pre.frame, last.val))
        => Lookup(ds, last.key) = LRes("value", <<>>, last.val)

\* C7 amended: the same for every key k that is not itself the name of a
\* column of the owned frame (a column of that name is looked up first).
C7_SideStoreRoundTripNoColumn ==
    (pc = "live" /\ last.op = "assign" /\ ~InColumns(pre.frame, last.val)
        /\ ~HasCol(ds.frame, last.key))
        => Lookup(ds, last.key) = LRes("value", <<>>, last.val)

C7_SideStored ==
    /\ kind = "GeoDataSet" /\ pc = "live" /\ last.op = "assign"
    /\ ~InColumns(pre.frame, last.val) /\ ~HasCol(ds.frame, last.key)
    /\ last.val = StrV("label") /\ last.key = "value_field"
    /\ last.key \notin DOMAIN pre.store

C7_SideStoredPlain ==
    /\ kind = "DataSet" /\ pc = "live" /\ last.op = "assign"
    /\ ~InColumns(pre.frame, last.val) /\ ~HasCol(ds.frame, last.key)
    /\ last.val = ListV /\ last.key \notin DOMAIN pre.store

\* C8: a frame (plain or geo) with a populated geometry column and populated
\* coord_field1 and coord_field2 constructs a GeoDataSet, with the precedence
\* warning, whose geometry is the geometry column of the input.
C8_GeometryPrecedence ==
    (kind = "GeoDataSet" /\ last.op = "init" /\ last.arg.t = "frame"
        /\ Populated(Raw, "geometry") /\ Populated(Raw, "coord_field1")
        /\ Populated(Raw, "coord_field2"))
        => /\ pc = "live" /\ last.err = NoErr
           /\ PrecedenceWarning \in last.warns
           /\ ColData(ds.frame, "geometry") = ColData(Raw, "geometry")

\* C9: constructing from (or replacing the frame by) a frame with a populated
\* geometry column, with to_crs supplied and no crs, fails with the error
\* that asks for a beginning crs.
C9_ReprojectionNeedsOrigin ==
    (kind = "GeoDataSet" /\ last.op \in {"init", "setframe"} /\ last.arg.t = "frame"
        /\ Populated(Raw, "geometry") /\ Supplied("to_crs") /\ ~Supplied("crs"))
        => /\ last.err.type = "GeoDataSetInfoError"
           /\ last.err.msg = "A beginning crs must be given to transform to a new crs!"

\* C10: a frame with only coord_field1 and coord_field2 populated, with crs
\* EPSG:4326, constructs a GeoDataSet whose frame has a populated geometry
\* column and the crs EPSG:3857 when to_crs EPSG:3857 is supplied, and
\* EPSG:4326 when no to_crs is.
C10_Applies ==
    /\ kind = "GeoDataSet" /\ last.op = "init" /\ last.arg.t = "frame"
    /\ Populated(Raw, "coord_field1") /\ Populated(Raw, "coord_field2")
    /\ ~HasCol(Raw, "geometry")
    /\ last.fields = <<>> /\ "crs" \in KwKeys(last.kw)

C10_Outcome ==
    /\ pc = "live" /\ last.err = NoErr
    /\ Populated(ds.frame, "geometry")
    /\ ds.frame.crs = IF "to_crs" \in KwKeys(last.kw) THEN "EPSG:3857" ELSE "EPSG:4326"

\* C10 (the statement), for plain and geo frames with coordinates only
C10_CoordinateBuilt == C10_Applies => C10_Outcome

\* the same for the plain (pandas) frames alone
C10_CoordinateBuiltPlain == (C10_Applies /\ Raw.kind = "df") => C10_Outcome

C10_PlainReached == C10_Applies /\ Raw.kind = "df" /\ ds.frame.crs = "EPSG:3857"

\* what the lookup of a side-stored value hands back
Stored(v) ==
    IF v # FrameRef THEN LRes("value", <<>>, v)
    ELSE IF kind = "DataSet" THEN LRes("frame", <<>>, FrameRef)
    ELSE LRes("frame", <<>>, FrameCopy)

\* C11: dataset[k] of a plain DataSet or a GeoDataSet, for a key k that is
\* no bookkeeping field, is the column k of the frame whenever the frame has
\* one (also when k is a key of the side-store), the side-stored value when
\* the frame has no column k, and a KeyError when k is in neither.
C11_LookupPriority ==
    (pc = "live" /\ last.op = "lookup")
        => LET k == last.key
           IN  IF HasCol(ds.frame, k)
               THEN last.res = LRes("column", ColData(ds.frame, k), NoneV)
               ELSE IF k \in DOMAIN ds.store
               THEN last.res = Stored(ds.store[k])
               ELSE last.res.tag = "KeyError"

\* C11 for the GeoDataSet alone, while no side-stored key has been deleted
\* (a deleted key stays in __dict__, where the lookup still finds it)
C11_GeoLookupPriority ==
    (kind = "GeoDataSet" /\ DOMAIN ds.dict \subseteq DOMAIN ds.store) => C11_LookupPriority

C11_GeoColumnOverStore ==
    /\ kind = "GeoDataSet" /\ pc = "live" /\ last.op = "lookup"
    /\ HasCol(ds.frame, last.key) /\ last.key \in DOMAIN ds.store

\* a frame on which the construction with the keyword fields alone succeeds
C12_Usable ==
    /\ last.arg.t = "frame"
    /\ \A strictCrs \in BOOLEAN : Geo_init(last.arg, <<>>, last.kw, strictCrs).err = NoErr

\* C12: constructing a GeoDataSet with a non-empty fields mapping and keyword
\* fields on a usable frame succeeds, and every entry of the mapping and of
\* the keywords is routed through the assignment: its key is an alias or a
\* key of the side-store afterwards.
C12_FieldsMappingRouted ==
    (kind = "GeoDataSet" /\ last.op = "init" /\ last.fields # <<>> /\ C12_Usable)
        => /\ pc = "live" /\ last.err = NoErr
           /\ \A k \in KwKeys(last.fields) \cup KwKeys(last.kw) :
                k \in AliasKeys(ds.aliases) \/ k \in DOMAIN ds.store

\* the same for a construction without a fields mapping
C12_KeywordsRouted ==
    (kind = "GeoDataSet" /\ last.op = "init" /\ last.fields = <<>> /\ C12_Usable)
        => /\ pc = "live" /\ last.err = NoErr
           /\ \A k \in KwKeys(last.kw) :
                k \in AliasKeys(ds.aliases) \/ k \in DOMAIN ds.store

\* a frame with no populated geometry column and fewer than two populated
\* coordinate columns
C13_Shapeless ==
    /\ kind = "GeoDataSet" /\ last.op \in {"init", "setframe"} /\ last.arg.t = "frame"
    /\ last.fields = <<>>
    /\ ~Populated(Raw, "geometry")
    /\ ~(Populated(Raw, "coord_field1") /\ Populated(Raw, "coord_field2"))

\* C13: constructing a GeoDataSet from, or replacing its frame by, a plain or
\* geo frame with no populated geometry column and fewer than two populated
\* coordinate columns fails with the frame error (GeoDataSetFrameError), and
\* no dataset owns that frame afterwards.
C13_ShapeRejected ==
    C13_Shapeless
        => /\ last.err.type = "GeoDataSetFrameError"
           /\ ~(pc = "live" /\ ds.frame.src = Raw.src)

\* the part that holds at construction in the builds where .crs of a
\* GeoDataFrame without geometry raises: the construction fails
C13_SomeErrorPlainFrame ==
    (C13_Shapeless /\ last.op = "init" /\ Raw.kind = "df") => (last.err # NoErr /\ pc = "failed")

C14_Applies ==
    /\ kind = "GeoDataSet" /\ pc = "live" /\ last.op = "assign"
    /\ last.val.t = "tuple" /\ HasCol(pre.frame, last.val.s)
    /\ last.val.f \notin {"True", "False"}

\* C14: assigning to a GeoDataSet the pair (name of a column of the frame,
\* flag) with a flag that is not a bool raises the GeoDataSetInfoError about
\* the persistent flag, and the pair is not kept as a side-stored value.
C14_InvalidPersistenceFlag ==
    C14_Applies
        => /\ last.err.type = "GeoDataSetInfoError"
           /\ Get(ds.store, last.key) # last.val
           /\ Get(ds.dict, last.key) # last.val

\* the column shown as k is the one k is bound to
OwnBinding(d, k) ==
    k \in AliasKeys(d.aliases) /\ ColData(d.frame, k) = <<AliasGet(d.aliases, k)>>

C15_Applies ==
    /\ pc = "live" /\ last.op = "assign"
    /\ IsStr(last.val) /\ HasCol(pre.frame, last.val.s)
    /\ last.key # last.val.s
    /\ HasCol(pre.frame, last.key) /\ ~OwnBinding(pre, last.key)

\* C15: assigning to k an existing column v while k is already the name of
\* another column of the frame, one that is not k's own binding, raises an
\* error the caller sees; the value is not side-stored and the frame does not
\* get two columns under the name k.
C15_CollisionFails ==
    C15_Applies
        => /\ last.err # NoErr
           /\ Get(ds.store, last.key) = Get(pre.store, last.key)
           /\ Len(ColData(ds.frame, last.key)) < 2

\* C15 where k has no alias at all, on the GeoDataSet
C15_GeoUnboundCollisionFails ==
    (kind = "GeoDataSet" /\ last.key \notin AliasKeys(pre.aliases)) => C15_CollisionFails

C15_GeoUnboundCollision ==
    kind = "GeoDataSet" /\ C15_Applies /\ last.key \notin AliasKeys(pre.aliases)

\* C16: what dataset.frame and dataset['frame'] hand out is a copy: after the
\* caller has changed it in place, the frame the dataset owns is as it was.
C16_DefensiveCopy ==
    (pc = "live" /\ last.op = "mutate") => ds.frame = pre.frame

\* C16 for the GeoDataSet alone
C16_GeoDefensiveCopy ==
    (kind = "GeoDataSet" /\ pc = "live" /\ last.op = "mutate") => ds.frame = pre.frame

C16_GeoCallerMutated ==
    kind = "GeoDataSet" /\ pc = "live" /\ last.op = "mutate" /\ last.res.val = FrameCopy

\* C17: iterating a plain DataSet or a GeoDataSet yields the keys of its
\* side-store, each once and nothing else: no (key, value) tuple, no value.
C17_IterationYieldsKeys ==
    (pc = "live" /\ last.op = "iter")
        => /\ {i.key : i \in last.items} = DOMAIN ds.store
           /\ \A i \in last.items : ~i.pair

\* C17 for the plain DataSet alone
C17_PlainIterationYieldsKeys == kind = "DataSet" => C17_IterationYieldsKeys

C17_PlainIterated ==
    kind = "DataSet" /\ pc = "live" /\ last.op = "iter" /\ Cardinality(last.items) > 1

\* every alias k -> v has its column k in the frame
AliasesConsistent(d) == \A k \in AliasKeys(d.aliases) : HasCol(d.frame, k)

\* C18: an assignment (a rebinding, a rebinding attempt whose new value is no
\* column, the binding of one canonical name to another) made in a state
\* where every alias k -> v has its column k leaves every alias with its
\* column k: no alias survives for a k that is no longer a column.
C18_AliasesStayConsistent ==
    (pc = "live" /\ last.op = "assign" /\ AliasesConsistent(pre))
        => AliasesConsistent(ds)

\* the state after each call of a run of assignments on a GeoDataSet that
\* names neither the geometry column nor a canonical name as the value
C18_GeoPlainRebinds ==
    (kind = "GeoDataSet" /\ pc = "live" /\ last.op = "assign" /\ AliasesConsistent(pre)
        /\ (IsStr(last.val) => last.val.s \notin AliasKeys(pre.aliases)))
        => AliasesConsistent(ds)

C19_Applies ==
    /\ pc = "live" /\ last.op = "assign"
    /\ last.key \in AliasKeys(pre.aliases)
    /\ ~HasCol(pre.frame, last.key)
    /\ IsStr(last.val) /\ HasCol(pre.frame, last.val.s)

\* C19: when k has an alias, the frame has no column k any more and k is
\* assigned an existing column v2, the restore that cannot be done is passed
\* over: the call raises nothing, renames v2 to k, records the alias k -> v2
\* and side-stores nothing under k.
C19_BestEffortRestore ==
    C19_Applies
        => /\ last.err = NoErr
           /\ ColData(ds.frame, last.key) = ColData(pre.frame, last.val.s)
           /\ AliasGet(ds.aliases, last.key) = last.val.s
           /\ Get(ds.store, last.key) = Get(pre.store, last.key)

\* C19 for the GeoDataSet alone
C19_GeoBestEffortRestore == kind = "GeoDataSet" => C19_BestEffortRestore

C19_GeoRestoreSkipped == kind = "GeoDataSet" /\ C19_Applies

\* a construction or a frame replacement whose normalization went through
\* (the replacement may still fail afterwards, on a persistent field)
C20_Normalized ==
    /\ kind = "GeoDataSet" /\ pc = "live"
    /\ last.op \in {"init", "setframe"} /\ last.arg.t = "frame"
    /\ last.err = NoErr \/ last.err.msg = "persistent field"

\* the alias entries k -> v, k # v, whose column v the incoming frame had
C20_Entries ==
    {i \in DOMAIN ds.aliases :
        ds.aliases[i][1] # ds.aliases[i][2] /\ HasCol(Raw, ds.aliases[i][2])}

\* C20: after a construction or a frame replacement of a GeoDataSet whose
\* normalization succeeded, for every alias k -> v with k # v whose column v
\* the incoming frame had, the owned frame has a column k with the data of
\* that column and has no column v.
C20_FinalizationRepairsAliases ==
    C20_Normalized
        => \A i \in C20_Entries :
             /\ Range(ColData(Raw, ds.aliases[i][2]))
                    \subseteq Range(ColData(ds.frame, ds.aliases[i][1]))
             /\ ~HasCol(ds.frame, ds.aliases[i][2])

\* an assignment that ended in the side-store: no error, no rebinding, the
\* value under the key
C21_SideStored ==
    /\ pc = "live" /\ last.op = "assign"
    /\ last.err = NoErr /\ ~last.rebound
    /\ Get(ds.store, last.key) = last.val

\* C21: when an assignment to a plain DataSet or a GeoDataSet ends by
\* side-storing the value, the column names of the owned frame and the alias
\* table are what they were before the call, also when the key was already
\* bound to a column.
C21_SideStoreLeavesFrame ==
    C21_SideStored
        => /\ ColNames(ds.frame) = ColNames(pre.frame)
           /\ ds.aliases = pre.aliases

\* C21 for the GeoDataSet alone
C21_GeoSideStoreLeavesFrame == kind = "GeoDataSet" => C21_SideStoreLeavesFrame

C21_GeoSideStoredBound ==
    kind = "GeoDataSet" /\ C21_SideStored /\ last.key \in AliasKeys(pre.aliases)
        /\ HasCol(pre.frame, last.key)

\* len(dataset) and `k in dataset` of whichever dataset the run is about
Length(d) == IF kind = "DataSet" THEN DS_len(d) ELSE Geo_len(d)
Contains(d, k) == IF kind = "DataSet" THEN DS_contains(d, k) ELSE Geo_contains(d, k)

C22_Applies ==
    /\ pc = "live" /\ last.op = "delete"
    /\ last.key \in DOMAIN pre.store
    /\ ~HasCol(pre.frame, last.key)

\* C22: after del dataset[k] on a plain DataSet or a GeoDataSet, for a key k
\* of the side-store that is no column of the owned frame, k is not in the
\* dataset, the length is one less than before, and dataset[k] raises
\* KeyError instead of handing back the deleted value.
C22_DeletionRemovesValue ==
    C22_Applies
        => /\ last.err = NoErr
           /\ ~Contains(ds, last.key)
           /\ Length(ds) = Length(pre) - 1
           /\ Lookup(ds, last.key).tag = "KeyError"

\* C22 for the plain DataSet alone
C22_PlainDeletionRemovesValue == kind = "DataSet" => C22_DeletionRemovesValue

C22_PlainDeleted == kind = "DataSet" /\ C22_Applies

\* membership and length alone, on both datasets
C22_MembershipAndLength ==
    C22_Applies
        => /\ ~Contains(ds, last.key)
           /\ Length(ds) = Length(pre) - 1

====
